---- MODULE Spec2Model ----
(***************************************************************************)
(* Model of scripts/log_release_downloads.py: one poll run of the release  *)
(* download logger, as a state machine over the three files it keeps under *)
(* metrics/ (snapshot CSV, approximate-events CSV, last-poll marker) and   *)
(* the backups it renames the snapshot CSV to.                             *)
(*                                                                         *)
(* A CSV file is a sequence of rows, a row a sequence of cells, and a cell *)
(* is a piece of text.  Text is kept with what the program can do to it:   *)
(*   k = "int"  the decimal text of the integer n  (str(n); int() reads n) *)
(*   k = "ts"   the isoformat text of the whole second n                   *)
(*   k = "str"  any other text s (int() and fromisoformat() raise on it)   *)
(*   k = "none" Python's None, as csv.DictReader gives for a missing field *)
(***************************************************************************)
EXTENDS Integers, Sequences, FiniteSets, TLC

\* ---------------------------------------------------------------- bounds
MaxRuns == 2
MaxCount == 1
MaxAssets == 2
MaxTime == 1
MaxKills == 1

\* ---------------------------------------------------------------- text
IntText(n) == [k |-> "int", n |-> n, s |-> ""]
IsoText(t) == [k |-> "ts", n |-> t, s |-> ""]
Text(s) == [k |-> "str", n |-> 0, s |-> s]
None == [k |-> "none", n |-> 0, s |-> ""]

\* Python truthiness of a str-or-None value: None and "" are falsy.
Truthy(c) == c.k \in {"int", "ts"} \/ (c.k = "str" /\ c.s # "")

\* int(text): the value, or ValueError.
ParseInt(c) == IF c.k = "int" THEN [ok |-> TRUE, v |-> c.n] ELSE [ok |-> FALSE, v |-> 0]

\* ---------------------------------------------------------------- settings
SNAPSHOT_HEADER ==
    << Text("timestamp_jst"), Text("release_tag"), Text("asset_name"),
       Text("download_count_total"), Text("delta_since_prev") >>

EVENTS_HEADER ==
    << Text("window_start_jst"), Text("window_end_jst"), Text("asset_name"),
       Text("delta_downloads") >>

\* ---------------------------------------------------------------- files
Absent == [exists |-> FALSE, rows |-> << >>]
File(rs) == [exists |-> TRUE, rows |-> rs]

NoMarker == [exists |-> FALSE, text |-> None]
MarkerFile(c) == [exists |-> TRUE, text |-> c]

\* _read_csv_header: None for a missing file or a file with no row at all.
_read_csv_header(f) ==
    IF ~f.exists THEN [some |-> FALSE, hdr |-> << >>]
    ELSE IF f.rows = << >> THEN [some |-> FALSE, hdr |-> << >>]
    ELSE [some |-> TRUE, hdr |-> f.rows[1]]

\* Whether _backup_if_header_mismatch renames the file aside.
HeaderMismatch(f, expected_header) ==
    LET hdr == _read_csv_header(f)
    IN  hdr.some /\ hdr.hdr # expected_header

\* row.get(key, "") on a csv.DictReader row: the cell under the last column
\* named key; None when the row is too short to reach it; "" when no column
\* has that name.
DictGet(fieldnames, row, key) ==
    LET idx == {i \in 1..Len(fieldnames) : fieldnames[i] = key}
    IN  IF idx = {} THEN Text("")
        ELSE LET i == CHOOSE j \in idx : \A m \in idx : m <= j
             IN  IF i <= Len(row) THEN row[i] ELSE None

\* A variant that keeps the first count read for a name, not the last.
LoadRowFirstWins(last, fieldnames, row) ==
    LET name == DictGet(fieldnames, row, Text("asset_name"))
        total == DictGet(fieldnames, row, Text("download_count_total"))
    IN  IF row = << >> THEN last
        ELSE IF Truthy(name) /\ Truthy(total) /\ ParseInt(total).ok
                /\ name \notin DOMAIN last
             THEN [x \in DOMAIN last \cup {name} |->
                       IF x = name THEN ParseInt(total).v ELSE last[x]]
             ELSE last

\* One iteration of the loop of _load_last_counts.
LoadRow(last, fieldnames, row) ==
    LET name == DictGet(fieldnames, row, Text("asset_name"))
        total == DictGet(fieldnames, row, Text("download_count_total"))
    IN  IF row = << >> THEN last
        ELSE IF Truthy(name) /\ Truthy(total) /\ ParseInt(total).ok
             THEN [x \in DOMAIN last \cup {name} |->
                       IF x = name THEN ParseInt(total).v ELSE last[x]]
             ELSE last

RECURSIVE LoadRows(_, _, _, _)
LoadRows(last, fieldnames, rs, i) ==
    IF i > Len(rs) THEN last
    ELSE LoadRows(LoadRow(last, fieldnames, rs[i]), fieldnames, rs, i + 1)

EmptyCounts == [x \in {} |-> 0]

\* _load_last_counts: asset_name -> last download_count_total.
_load_last_counts(f) ==
    IF ~f.exists THEN EmptyCounts
    ELSE IF f.rows = << >> THEN EmptyCounts
    ELSE LoadRows(EmptyCounts, f.rows[1], f.rows, 2)

\* _read_last_poll_jst: the time in the marker, or None.
_read_last_poll_jst(m) ==
    IF ~m.exists THEN [some |-> FALSE, t |-> 0]
    ELSE IF ~Truthy(m.text) THEN [some |-> FALSE, t |-> 0]
    ELSE IF m.text.k = "ts" THEN [some |-> TRUE, t |-> m.text.n]
    ELSE [some |-> FALSE, t |-> 0]

\* A variant that saves the second before dt_jst.
WriteLastPollEarlier(dt_jst) == MarkerFile(IsoText(IF dt_jst > 0 THEN dt_jst - 1 ELSE 0))

\* _write_last_poll_jst: the marker holding dt_jst to the whole second.
_write_last_poll_jst(dt_jst) == MarkerFile(IsoText(dt_jst))

\* ---------------------------------------------------------------- main
\* A variant that starts the mismatching file afresh where it is.
BackupInPlace(f, expected_header, bks, ts) ==
    IF HeaderMismatch(f, expected_header)
    THEN [snapshot |-> Absent, backups |-> bks]
    ELSE [snapshot |-> f, backups |-> bks]

\* _backup_if_header_mismatch at time ts: the snapshot file and the backups
\* after it.  Path.rename replaces a file that already has the backup's name.
_backup_if_header_mismatch(f, expected_header, bks, ts) ==
    IF HeaderMismatch(f, expected_header)
    THEN [snapshot |-> Absent,
          backups |-> {b \in bks : b.name # ts} \cup {[name |-> ts, rows |-> f.rows]}]
    ELSE [snapshot |-> f, backups |-> bks]

\* latest.get("tag_name") or "latest"
ReleaseTag(latest) ==
    IF Truthy(latest.tag_name) THEN latest.tag_name ELSE Text("latest")

\* A variant that takes an asset never seen before to have had no downloads.
PrevTotalZero(last, name, total) == IF name \in DOMAIN last THEN last[name] ELSE 0

\* last_counts.get(name, total)
PrevTotal(last, name, total) == IF name \in DOMAIN last THEN last[name] ELSE total

\* A variant that takes each entry's count as the previous count of the entries
\* after it, so that a name seen twice in one answer is diffed against itself.
RECURSIVE RunningRows(_, _, _, _, _)
RunningRows(last, as, now_jst_str, tag, i) ==
    IF i > Len(as) THEN << >>
    ELSE LET a == as[i]
             r == [timestamp_jst |-> now_jst_str,
                   release_tag |-> tag,
                   asset_name |-> a.name,
                   download_count_total |-> a.download_count,
                   delta_since_prev |->
                       a.download_count - PrevTotal(last, a.name, a.download_count)]
             seen == [x \in DOMAIN last \cup {a.name} |->
                         IF x = a.name THEN a.download_count ELSE last[x]]
         IN  << r >> \o RunningRows(seen, as, now_jst_str, tag, i + 1)

SnapshotRowsRunning(last, as, now_jst_str, tag) ==
    RunningRows(last, as, now_jst_str, tag, 1)

\* A variant that records a decrease as no change.
SnapshotRowsClamped(last, as, now_jst_str, tag) ==
    [i \in 1..Len(as) |->
        LET d == as[i].download_count - PrevTotal(last, as[i].name, as[i].download_count)
        IN  [timestamp_jst |-> now_jst_str,
             release_tag |-> tag,
             asset_name |-> as[i].name,
             download_count_total |-> as[i].download_count,
             delta_since_prev |-> IF d < 0 THEN 0 ELSE d]]

\* The loop that builds the SnapshotRow list: every entry is diffed against
\* last_counts as loaded, which the loop never updates.
SnapshotRows(last, as, now_jst_str, tag) ==
    [i \in 1..Len(as) |->
        [timestamp_jst |-> now_jst_str,
         release_tag |-> tag,
         asset_name |-> as[i].name,
         download_count_total |-> as[i].download_count,
         delta_since_prev |->
             as[i].download_count - PrevTotal(last, as[i].name, as[i].download_count)]]

\* csv.writer.writerow of one SnapshotRow.
SnapshotCsvRow(r) ==
    << r.timestamp_jst, r.release_tag, r.asset_name,
       IntText(r.download_count_total), IntText(r.delta_since_prev) >>

\* A variant that, like the events CSV, leaves out the rows with delta 0.
ChangedRow(r) == r.delta_since_prev # 0

AppendSnapshotSparse(f, rs) ==
    LET ch == SelectSeq(rs, ChangedRow)
    IN  File((IF f.exists THEN f.rows ELSE << SNAPSHOT_HEADER >>)
             \o [i \in 1..Len(ch) |-> SnapshotCsvRow(ch[i])])

\* The snapshot CSV after the append: the header only when the file is new.
AppendSnapshot(f, rs) ==
    File((IF f.exists THEN f.rows ELSE << SNAPSHOT_HEADER >>)
         \o [i \in 1..Len(rs) |-> SnapshotCsvRow(rs[i])])

\* A variant that opens the events CSV for writing on every run.
TruncateEvents(f) == File(<< EVENTS_HEADER >>)

\* The events CSV is created with its header only when it does not exist.
EnsureEvents(f) == IF f.exists THEN f ELSE File(<< EVENTS_HEADER >>)

\* is_first_poll = (prev_poll_jst == now_jst and not last_poll_path.exists())
IsFirstPoll(prev, now, m) == prev = now /\ ~m.exists

\* A variant that also takes an unchanged count for an increase.
HasNoDecrease(r) == r.delta_since_prev >= 0

HasIncrease(r) == r.delta_since_prev > 0

\* A variant that starts every window at the time of the poll itself.
EventCsvRowFromNow(r, prev, now) ==
    << IsoText(now), IsoText(now), r.asset_name, IntText(r.delta_since_prev) >>

EventCsvRow(r, prev, now) ==
    << IsoText(prev), IsoText(now), r.asset_name, IntText(r.delta_since_prev) >>

\* The events CSV after the append of one row per SnapshotRow with delta > 0.
AppendEvents(f, rs, prev, now, m) ==
    IF IsFirstPoll(prev, now, m) THEN f
    ELSE LET inc == SelectSeq(rs, HasIncrease)
         IN  File(f.rows \o [i \in 1..Len(inc) |-> EventCsvRow(inc[i], prev, now)])

\* ---------------------------------------------------------------- state
VARIABLES
    dir,            \* whether metrics/ exists
    snapshot,       \* metrics/downloads_log.csv
    events,         \* metrics/download_events_approx.csv
    marker,         \* metrics/last_poll_jst.txt
    backups,        \* the files downloads_log_backup_<ts>.csv, by <ts>
    clock,          \* the wall clock, in whole seconds
    pc,             \* where each run of main() stands
    last_counts,    \* main's locals, per run
    latest,
    now_jst,
    prev_poll_jst,
    rows,
    pre,            \* history: the files as the run found them
    runs,           \* history: how many runs were started
    kills,          \* history: how many runs were killed
    killedAt,       \* history: what the last killed run had written
    owed            \* history: per asset, the positive deltas appended to the
                    \* snapshot CSV by runs that found a marker file

files == << dir, snapshot, events, marker, backups >>
locals == << last_counts, latest, now_jst, prev_poll_jst, rows >>
vars == << dir, snapshot, events, marker, backups, clock, pc, last_counts,
           latest, now_jst, prev_poll_jst, rows, pre, runs, kills,
           killedAt, owed >>

Procs == {1, 2}

\* ---------------------------------------------------------------- inputs
AssetNames == {Text("a"), Text("b")}
Counts == 0..MaxCount
Assets == [name : AssetNames, download_count : Counts]

RECURSIVE SeqsUpTo(_, _)
SeqsUpTo(S, n) ==
    IF n = 0 THEN {<< >>}
    ELSE LET shorter == SeqsUpTo(S, n - 1)
         IN  shorter \cup {Append(q, x) : q \in {r \in shorter : Len(r) = n - 1}, x \in S}

\* What GET /releases/latest may answer: a tag (or none) and a list of assets.
Responses ==
    [tag_name : {Text("v1.2")}, assets : SeqsUpTo(Assets, MaxAssets)]
    \cup [tag_name : {None}, assets : {<< >>} \cup {<< a >> : a \in Assets}]

NoResponse == [tag_name |-> None, assets |-> << >>]

\* ---------------------------------------------------------------- Init
T0 == IsoText(0)

LogRow(name, total, delta) == << T0, Text("v1.2"), name, total, delta >>

\* A log of earlier polls in which some rows were damaged since: a count that
\* is no integer, a row cut short, a row with no asset name.
DamagedLog ==
    File(<< SNAPSHOT_HEADER,
            LogRow(Text("a"), IntText(0), IntText(0)),
            LogRow(Text("a"), Text("1x"), IntText(0)),
            << T0, Text("v1.2"), Text("b") >>,
            LogRow(Text(""), IntText(1), IntText(0)) >>)

\* A log written by the older variant of the script, with its UTC header.
OldFormatLog ==
    File(<< << Text("timestamp_utc"), Text("release_tag"), Text("asset_name"),
               Text("download_count_total"), Text("delta_since_prev") >>,
            LogRow(Text("a"), IntText(0), IntText(0)) >>)

\* The log one earlier poll left.
EarlierLog ==
    File(<< SNAPSHOT_HEADER, LogRow(Text("b"), IntText(1), IntText(0)) >>)

InitSnapshots == {Absent, File(<< >>), DamagedLog, OldFormatLog, EarlierLog}
\* The events CSV and the marker are made by the same runs: both or neither.
InitEvents(m) == IF m.exists THEN File(<< EVENTS_HEADER >>) ELSE Absent
InitMarkers == {NoMarker, MarkerFile(Text("")), MarkerFile(Text("not a time")), MarkerFile(T0)}

FilesNow == [dir |-> dir, snapshot |-> snapshot, events |-> events,
             marker |-> marker, backups |-> backups]

Init ==
    /\ \/ dir = FALSE /\ snapshot = Absent /\ events = Absent /\ marker = NoMarker
       \/ dir = TRUE /\ snapshot \in InitSnapshots /\ marker \in InitMarkers
                     /\ events = InitEvents(marker)
    /\ backups = {}
    /\ clock = 0
    /\ pc = [p \in Procs |-> "idle"]
    /\ last_counts = [p \in Procs |-> EmptyCounts]
    /\ latest = [p \in Procs |-> NoResponse]
    /\ now_jst = [p \in Procs |-> 0]
    /\ prev_poll_jst = [p \in Procs |-> 0]
    /\ rows = [p \in Procs |-> << >>]
    /\ pre = [p \in Procs |-> FilesNow]
    /\ runs = 0
    /\ kills = 0
    /\ killedAt = "never"
    /\ owed = [a \in AssetNames |-> 0]

\* ---------------------------------------------------------------- actions
Stopped == {"idle", "done", "config_error", "fetch_failed", "killed"}

ResetLocals(p) ==
    /\ last_counts' = [last_counts EXCEPT ![p] = EmptyCounts]
    /\ latest' = [latest EXCEPT ![p] = NoResponse]
    /\ now_jst' = [now_jst EXCEPT ![p] = 0]
    /\ prev_poll_jst' = [prev_poll_jst EXCEPT ![p] = 0]
    /\ rows' = [rows EXCEPT ![p] = << >>]

\* A variant that makes metrics/ before it looks at the settings.
ConfigErrorAfterMkdir(p) ==
    /\ pc[p] \in Stopped
    /\ runs < MaxRuns
    /\ runs' = runs + 1
    /\ pre' = [pre EXCEPT ![p] = FilesNow]
    /\ dir' = TRUE
    /\ pc' = [pc EXCEPT ![p] = "config_error"]
    /\ ResetLocals(p)
    /\ UNCHANGED << snapshot, events, marker, backups, clock, kills, killedAt, owed >>

\* OWNER, REPO or GITHUB_TOKEN is missing or blank: SystemExit.
ConfigError(p) ==
    /\ pc[p] \in Stopped
    /\ runs < MaxRuns
    /\ runs' = runs + 1
    /\ pre' = [pre EXCEPT ![p] = FilesNow]
    /\ pc' = [pc EXCEPT ![p] = "config_error"]
    /\ ResetLocals(p)
    /\ UNCHANGED << files, clock, kills, killedAt, owed >>

\* The settings are there: metrics/ is made if it is missing.
Start(p) ==
    /\ pc[p] \in Stopped
    /\ runs < MaxRuns
    /\ runs' = runs + 1
    /\ pre' = [pre EXCEPT ![p] = FilesNow]
    /\ dir' = TRUE
    /\ pc' = [pc EXCEPT ![p] = "backup"]
    /\ ResetLocals(p)
    /\ UNCHANGED << snapshot, events, marker, backups, clock, kills, killedAt, owed >>

\* _backup_if_header_mismatch(snapshot_csv_path, snapshot_header)
Backup(p) ==
    /\ pc[p] = "backup"
    /\ \E ts \in clock..MaxTime :
          LET r == _backup_if_header_mismatch(snapshot, SNAPSHOT_HEADER, backups, ts)
          IN  /\ HeaderMismatch(snapshot, SNAPSHOT_HEADER) \/ ts = clock
              /\ clock' = ts
              /\ snapshot' = r.snapshot
              /\ backups' = r.backups
    /\ pc' = [pc EXCEPT ![p] = "load"]
    /\ UNCHANGED << dir, events, marker, locals, pre, runs, kills, killedAt, owed >>

\* A variant that reads the counts of the file the run found, renamed or not.
LoadBeforeBackup(p) ==
    /\ pc[p] = "load"
    /\ last_counts' = [last_counts EXCEPT ![p] = _load_last_counts(pre[p].snapshot)]
    /\ pc' = [pc EXCEPT ![p] = "fetch"]
    /\ UNCHANGED << files, clock, latest, now_jst, prev_poll_jst, rows, pre, runs, kills,
                    killedAt, owed >>

\* last_counts = _load_last_counts(snapshot_csv_path)
Load(p) ==
    /\ pc[p] = "load"
    /\ last_counts' = [last_counts EXCEPT ![p] = _load_last_counts(snapshot)]
    /\ pc' = [pc EXCEPT ![p] = "fetch"]
    /\ UNCHANGED << files, clock, latest, now_jst, prev_poll_jst, rows, pre, runs, kills,
                    killedAt, owed >>

\* _gh_api_get raises: a timeout, a non-2xx answer, a body that is no JSON.
FetchFail(p) ==
    /\ pc[p] = "fetch"
    /\ pc' = [pc EXCEPT ![p] = "fetch_failed"]
    /\ ResetLocals(p)
    /\ UNCHANGED << files, clock, pre, runs, kills, killedAt, owed >>

\* _gh_api_get answers with one of the responses R.
Fetched(p, R) ==
    /\ pc[p] = "fetch"
    /\ \E resp \in R : latest' = [latest EXCEPT ![p] = resp]
    /\ pc' = [pc EXCEPT ![p] = "reconcile"]
    /\ UNCHANGED << files, clock, last_counts, now_jst, prev_poll_jst, rows, pre,
                    runs, kills, killedAt, owed >>

\* _gh_api_get answers.
FetchOK(p) == Fetched(p, Responses)

\* now_jst, prev_poll_jst and the SnapshotRow list.
Reconcile(p) ==
    /\ pc[p] = "reconcile"
    /\ \E now \in clock..MaxTime :
          LET prev == _read_last_poll_jst(marker)
          IN  /\ clock' = now
              /\ now_jst' = [now_jst EXCEPT ![p] = now]
              /\ prev_poll_jst' =
                     [prev_poll_jst EXCEPT ![p] = IF prev.some THEN prev.t ELSE now]
              /\ rows' = [rows EXCEPT ![p] =
                     SnapshotRows(last_counts[p], latest[p].assets, IsoText(now),
                                  ReleaseTag(latest[p]))]
    /\ pc' = [pc EXCEPT ![p] = "write_snapshot"]
    /\ UNCHANGED << files, last_counts, latest, pre, runs, kills, killedAt, owed >>

RECURSIVE SumIncrease(_, _, _)
SumIncrease(rs, a, i) ==
    IF i > Len(rs) THEN 0
    ELSE (IF rs[i].asset_name = a /\ HasIncrease(rs[i])
          THEN rs[i].delta_since_prev ELSE 0) + SumIncrease(rs, a, i + 1)

\* A variant that saves the poll time as soon as the snapshot rows are out.
WriteSnapshotThenMarker(p) ==
    /\ pc[p] = "write_snapshot"
    /\ snapshot' = AppendSnapshot(snapshot, rows[p])
    /\ marker' = _write_last_poll_jst(now_jst[p])
    /\ owed' = IF marker.exists
               THEN [a \in AssetNames |-> owed[a] + SumIncrease(rows[p], a, 1)]
               ELSE owed
    /\ pc' = [pc EXCEPT ![p] = "events_header"]
    /\ UNCHANGED << dir, events, backups, clock, locals, pre, runs, kills, killedAt >>

\* The append to the snapshot CSV.
WriteSnapshot(p) ==
    /\ pc[p] = "write_snapshot"
    /\ snapshot' = AppendSnapshot(snapshot, rows[p])
    /\ owed' = IF marker.exists
               THEN [a \in AssetNames |-> owed[a] + SumIncrease(rows[p], a, 1)]
               ELSE owed
    /\ pc' = [pc EXCEPT ![p] = "events_header"]
    /\ UNCHANGED << dir, events, marker, backups, clock, locals, pre, runs, kills,
                    killedAt >>

\* The events CSV is created if it is missing.
EventsHeader(p) ==
    /\ pc[p] = "events_header"
    /\ events' = EnsureEvents(events)
    /\ pc' = [pc EXCEPT ![p] = "write_events"]
    /\ UNCHANGED << dir, snapshot, marker, backups, clock, locals, pre, runs, kills,
                    killedAt, owed >>

\* The append to the events CSV.
WriteEvents(p) ==
    /\ pc[p] = "write_events"
    /\ events' = AppendEvents(events, rows[p], prev_poll_jst[p], now_jst[p], marker)
    /\ pc' = [pc EXCEPT ![p] = "write_marker"]
    /\ UNCHANGED << dir, snapshot, marker, backups, clock, locals, pre, runs, kills,
                    killedAt, owed >>

\* _write_last_poll_jst(last_poll_path, now_jst), and main returns.
WriteMarker(p) ==
    /\ pc[p] = "write_marker"
    /\ marker' = _write_last_poll_jst(now_jst[p])
    /\ pc' = [pc EXCEPT ![p] = "done"]
    /\ UNCHANGED << dir, snapshot, events, backups, clock, locals, pre, runs, kills,
                    killedAt, owed >>

\* What a run standing at pc has appended or replaced so far.
Written(at) ==
    CASE at \in {"events_header", "write_events"} -> "snapshot"
      [] at = "write_marker" -> "snapshot and events"
      [] OTHER -> "nothing"

\* The process is killed between two steps of a run.
Kill(p) ==
    /\ pc[p] \notin Stopped
    /\ kills < MaxKills
    /\ kills' = kills + 1
    /\ killedAt' = Written(pc[p])
    /\ pc' = [pc EXCEPT ![p] = "killed"]
    /\ ResetLocals(p)
    /\ UNCHANGED << files, clock, pre, runs, owed >>

Step(p) ==
    \/ ConfigError(p)
    \/ Start(p)
    \/ Backup(p)
    \/ Load(p)
    \/ FetchFail(p)
    \/ FetchOK(p)
    \/ Reconcile(p)
    \/ WriteSnapshot(p)
    \/ EventsHeader(p)
    \/ WriteEvents(p)
    \/ WriteMarker(p)
    \/ Kill(p)

\* One run at a time, as the scheduler is assumed to guarantee.
Next == Step(1)

Spec == Init /\ [][Next]_vars

\* ---------------------------------------------------------------- claims
\* What the claims speak of, read from the files and from the run's history.

Completed(p) == pc[p] = "done"

\* The snapshot CSV has the expected header as its first row.
HeaderMatches(f) == f.exists /\ f.rows # << >> /\ f.rows[1] = SNAPSHOT_HEADER

\* The rows the run's append came after: the file as found, or the header of
\* the fresh file when there was none or it was renamed aside.
SnapshotBase(p) ==
    IF ~pre[p].snapshot.exists \/ HeaderMismatch(pre[p].snapshot, SNAPSHOT_HEADER)
    THEN << SNAPSHOT_HEADER >>
    ELSE pre[p].snapshot.rows

EventsBase(p) ==
    IF pre[p].events.exists THEN pre[p].events.rows ELSE << EVENTS_HEADER >>

\* The rows of a file after its first n rows.
RowsAfter(f, n) == SubSeq(f.rows, n + 1, Len(f.rows))

IsPrefix(q, r) == Len(q) <= Len(r) /\ SubSeq(r, 1, Len(q)) = q

\* A row that records a count for an asset: a name and an integer count.
IsCountRow(row) == Len(row) >= 4 /\ Truthy(row[3]) /\ row[4].k = "int"

\* The rows of rs before row i that record a count for the asset name.
EarlierRows(rs, i, name) == {j \in 1..(i - 1) : IsCountRow(rs[j]) /\ rs[j][3] = name}

Nearest(js) == CHOOSE j \in js : \A m \in js : m <= j

\* The count of the nearest such row, or dflt when there is none.
EarlierCount(rs, i, name, dflt) ==
    LET js == EarlierRows(rs, i, name)
    IN  IF js = {} THEN dflt ELSE rs[Nearest(js)][4].n

\* C1 as stated: after completed runs only, every row of the snapshot log that
\* records a count has delta_since_prev = its count minus the count of the
\* nearest earlier row of the log for the same asset name, and 0 when there is
\* no earlier row.
C1_DeltaAgainstNearestRow ==
    (kills = 0 /\ pc[1] \in Stopped) =>
        \A i \in 1..Len(snapshot.rows) :
            LET row == snapshot.rows[i]
            IN  (IsCountRow(row) /\ Len(row) >= 5 /\ row[5].k = "int") =>
                    row[5].n = row[4].n - EarlierCount(snapshot.rows, i, row[3], row[4].n)

\* C1 as amended: every row a completed run appended has delta_since_prev = its
\* count minus the count of the nearest row for the same asset name among the
\* rows the log held when the run loaded it (the run's own rows are not looked
\* at), and 0 when the log held no such row.
C1_DeltaAgainstLoadedLog ==
    \A p \in Procs : Completed(p) =>
        LET base == SnapshotBase(p)
            new == RowsAfter(snapshot, Len(base))
        IN  /\ IsPrefix(base, snapshot.rows)
            /\ \A i \in 1..Len(new) :
                  /\ IsCountRow(new[i]) /\ Len(new[i]) = 5 /\ new[i][5].k = "int"
                  /\ new[i][5].n =
                        new[i][4].n
                        - EarlierCount(base, Len(base) + 1, new[i][3], new[i][4].n)

\* C1 witness: a completed run diffed an asset against a row of an earlier
\* run, and a second entry for the same name against that same row.
C1_Witness ==
    \E p \in Procs :
        /\ Completed(p)
        /\ runs = 2
        /\ Len(rows[p]) = 2
        /\ rows[p][1].asset_name = rows[p][2].asset_name
        /\ rows[p][1].delta_since_prev < 0
        /\ rows[p][2].delta_since_prev = 0
        /\ EarlierRows(SnapshotBase(p), Len(SnapshotBase(p)) + 1, rows[p][1].asset_name) # {}

\* The event rows a run is to append for the snapshot rows new, in their order.
RECURSIVE EventsFor(_, _, _, _)
EventsFor(new, start, end, i) ==
    IF i > Len(new) THEN << >>
    ELSE (IF new[i][5].n > 0
          THEN << << IsoText(start), IsoText(end), new[i][3], new[i][5] >> >>
          ELSE << >>) \o EventsFor(new, start, end, i + 1)

\* The time a marker holds, or dflt when it holds none.
PollTime(m, dflt) == IF m.exists /\ m.text.k = "ts" THEN m.text.n ELSE dflt

C3_FetchFailureLeavesFiles ==
    \A p \in Procs : pc[p] = "fetch_failed" =>
        /\ snapshot = pre[p].snapshot
        /\ events = pre[p].events
        /\ marker = pre[p].marker
        /\ backups = pre[p].backups

\* C4: a completed run that found a snapshot file whose first row is not the
\* expected header left the old rows, unchanged, in a backup under a name no
\* file had before, left every earlier backup as it was, and left a snapshot
\* log made of the expected header and this run's rows only.
C4_MismatchRelocates ==
    \A p \in Procs :
        (Completed(p) /\ HeaderMismatch(pre[p].snapshot, SNAPSHOT_HEADER)) =>
            /\ \E b \in backups :
                  /\ b.rows = pre[p].snapshot.rows
                  /\ \A o \in pre[p].backups : o.name # b.name
            /\ pre[p].backups \subseteq backups
            /\ snapshot.exists
            /\ snapshot.rows[1] = SNAPSHOT_HEADER
            /\ Len(snapshot.rows) = 1 + Len(latest[p].assets)
            /\ \A i \in 1..Len(latest[p].assets) :
                  /\ snapshot.rows[1 + i][1] = IsoText(now_jst[p])
                  /\ snapshot.rows[1 + i][3] = latest[p].assets[i].name
                  /\ snapshot.rows[1 + i][4] = IntText(latest[p].assets[i].download_count)

\* C4 witness: a completed run found the old-format log and fetched assets.
C4_Witness ==
    \E p \in Procs :
        /\ Completed(p)
        /\ pre[p].snapshot = OldFormatLog
        /\ Len(latest[p].assets) = 2

\* C5: a completed run that found neither a marker nor a snapshot log wrote a
\* snapshot row with delta 0 for every fetched asset, whatever its count, and
\* appended no event row.
C5_FirstPoll ==
    \A p \in Procs :
        (Completed(p) /\ ~pre[p].marker.exists /\ ~pre[p].snapshot.exists) =>
            /\ snapshot.rows =
                  << SNAPSHOT_HEADER >> \o
                  [i \in 1..Len(latest[p].assets) |->
                      << IsoText(now_jst[p]), ReleaseTag(latest[p]),
                         latest[p].assets[i].name,
                         IntText(latest[p].assets[i].download_count), IntText(0) >>]
            /\ events.rows = EventsBase(p)

\* C5 witness: a first poll ever completed with an asset whose count is not 0.
C5_Witness ==
    \E p \in Procs :
        /\ Completed(p)
        /\ ~pre[p].marker.exists /\ ~pre[p].snapshot.exists /\ ~pre[p].events.exists
        /\ \E i \in 1..Len(latest[p].assets) : latest[p].assets[i].download_count > 0

\* C6 as stated: a run that found a marker file holding no time (empty or
\* unparseable) appended no event row, as a run that found no marker.
C6_UnreadableMarkerSuppresses ==
    \A p \in Procs :
        (Completed(p) /\ pre[p].marker.exists /\ ~_read_last_poll_jst(pre[p].marker).some)
            => events.rows = EventsBase(p)

\* The sum of delta_downloads over the event rows of an asset.
RECURSIVE EventSum(_, _, _)
EventSum(rs, a, i) ==
    IF i > Len(rs) THEN 0
    ELSE (IF Len(rs[i]) = 4 /\ rs[i][3] = a /\ rs[i][4].k = "int" THEN rs[i][4].n ELSE 0)
         + EventSum(rs, a, i + 1)

\* C7 as stated: once the run after a run killed between its snapshot append
\* and its event append is done, every asset's event rows add up to the
\* positive deltas of its snapshot rows written by polls that had a marker.
C7_NextRunRepairs ==
    \A p \in Procs :
        (Completed(p) /\ killedAt = "snapshot") =>
            \A a \in AssetNames : EventSum(events.rows, a, 1) = owed[a]

\* The asset names the rows of a log carry.
NamesIn(rs) == {rs[j][3] : j \in {k \in 1..Len(rs) : Len(rs[k]) >= 3}}

\* C8: the mapping rebuilt from the snapshot log holds, for every asset name,
\* the count of the last row after the header that has that name and an
\* integer count, and holds nothing for a name with no such row; rows with a
\* count that is no integer or with a field missing change nothing; a missing
\* file gives the empty mapping.
C8_LastWellFormedRowWins ==
    \A p \in Procs : pc[p] = "fetch" =>
        LET rs == snapshot.rows
            last == last_counts[p]
        IN  /\ ~snapshot.exists => last = EmptyCounts
            /\ DOMAIN last \subseteq NamesIn(rs)
            /\ \A name \in NamesIn(rs) \cup AssetNames :
                  LET js == EarlierRows(rs, Len(rs) + 1, name) \ {1}
                  IN  IF js = {} THEN name \notin DOMAIN last
                      ELSE name \in DOMAIN last /\ last[name] = rs[Nearest(js)][4].n

\* C8 witness: the mapping was rebuilt from a log in which a row with a count
\* that is no integer follows a good row for the same asset, a later run's row
\* for that asset follows both, and a cut row is all there is for another.
C8_Witness ==
    \E p \in Procs :
        /\ pc[p] = "fetch"
        /\ IsPrefix(DamagedLog.rows, snapshot.rows)
        /\ EarlierRows(snapshot.rows, Len(snapshot.rows) + 1, Text("a")) = {2, 6}
        /\ last_counts[p] = [x \in {Text("a")} |-> 1]

\* C9: a completed run that found the expected header left the rows of the
\* snapshot log and of the event log where they were, its own rows coming
\* after them, and left the backups alone; the marker is replaced.
C9_LogsAppendOnly ==
    \A p \in Procs :
        (Completed(p) /\ HeaderMatches(pre[p].snapshot)) =>
            /\ IsPrefix(pre[p].snapshot.rows, snapshot.rows)
            /\ pre[p].events.exists => IsPrefix(pre[p].events.rows, events.rows)
            /\ backups = pre[p].backups
            /\ marker = MarkerFile(IsoText(now_jst[p]))

\* C9 witness: a completed run appended to a snapshot log and an event log
\* that both held rows of an earlier run, and replaced the marker.
C9_Witness ==
    \E p \in Procs :
        /\ Completed(p)
        /\ HeaderMatches(pre[p].snapshot)
        /\ Len(pre[p].events.rows) > 1
        /\ Len(snapshot.rows) > Len(pre[p].snapshot.rows)
        /\ Len(events.rows) > Len(pre[p].events.rows)
        /\ marker # pre[p].marker

\* C10: a completed run appended one snapshot row per entry of the fetched
\* list, in order, each with the entry's name and count and with the count
\* minus the count known for that name before the run (0 for a name not
\* known), also when the name comes twice in the list; and one event row per
\* entry with a positive delta when a marker file existed.
C10_OneRowPerEntry ==
    \A p \in Procs : Completed(p) =>
        LET base == SnapshotBase(p)
            new == RowsAfter(snapshot, Len(base))
            as == latest[p].assets
            known(i) == EarlierCount(base, Len(base) + 1, as[i].name, as[i].download_count)
            up == {i \in 1..Len(as) : as[i].download_count - known(i) > 0}
        IN  /\ Len(snapshot.rows) = Len(base) + Len(as)
            /\ \A i \in 1..Len(as) :
                  new[i] = << IsoText(now_jst[p]), ReleaseTag(latest[p]), as[i].name,
                              IntText(as[i].download_count),
                              IntText(as[i].download_count - known(i)) >>
            /\ Len(events.rows) =
                  Len(EventsBase(p)) + (IF pre[p].marker.exists THEN Cardinality(up) ELSE 0)

\* C10 witness: a completed run that found a marker fetched the same asset
\* name twice, each entry with an increase over the count known before.
C10_Witness ==
    \E p \in Procs :
        /\ Completed(p)
        /\ pre[p].marker.exists
        /\ Len(latest[p].assets) = 2
        /\ latest[p].assets[1].name = latest[p].assets[2].name
        /\ rows[p][1].delta_since_prev > 0
        /\ rows[p][2].delta_since_prev > 0
        /\ Len(events.rows) = Len(EventsBase(p)) + 2

\* Without a kill, every asset's event rows add up to what the runs with a
\* marker recorded as increases.
EventsMatchSnapshots ==
    \A p \in Procs :
        (Completed(p) /\ kills = 0) =>
            \A a \in AssetNames : EventSum(events.rows, a, 1) = owed[a]

\* The last rows of the log a run found are a decrease of the asset name.
FoundDecrease(p, name) ==
    LET base == SnapshotBase(p)
        js == EarlierRows(base, Len(base) + 1, name)
    IN  js # {} /\ Len(base[Nearest(js)]) = 5 /\ base[Nearest(js)][5].k = "int"
               /\ base[Nearest(js)][5].n < 0

\* C11: a completed run recorded, for every entry whose count is lower than the
\* count known before, the negative difference as the row's delta, appended
\* event rows with positive deltas only, and diffed every entry whose name's
\* nearest row in the log is such a decrease against that row's lowered count.
C11_DecreaseRecorded ==
    \A p \in Procs : Completed(p) =>
        LET base == SnapshotBase(p)
            new == RowsAfter(snapshot, Len(base))
            as == latest[p].assets
            ev == RowsAfter(events, Len(EventsBase(p)))
        IN  /\ Len(new) = Len(as)
            /\ \A i \in 1..Len(as) :
                  LET known == EarlierCount(base, Len(base) + 1, as[i].name,
                                            as[i].download_count)
                  IN  /\ as[i].download_count < known =>
                            /\ new[i][5] = IntText(as[i].download_count - known)
                            /\ new[i][5].n < 0
                      /\ FoundDecrease(p, as[i].name) =>
                            new[i][5].n = as[i].download_count - known
            /\ \A j \in 1..Len(ev) : ev[j][4].k = "int" /\ ev[j][4].n > 0
            /\ Len(ev) <= Cardinality({i \in 1..Len(new) : new[i][5].n > 0})

\* C11 witness: a run recorded a decrease of an asset and wrote no event row;
\* the next run found that row and recorded the increase over the lowered count.
C11_Witness ==
    \E p \in Procs :
        /\ Completed(p)
        /\ pre[p].snapshot.rows =
              EarlierLog.rows \o << << T0, Text("v1.2"), Text("b"), IntText(0), IntText(-1) >> >>
        /\ Len(pre[p].events.rows) = 1
        /\ FoundDecrease(p, Text("b"))
        /\ \E i \in 1..Len(rows[p]) :
              /\ rows[p][i].asset_name = Text("b")
              /\ rows[p][i].download_count_total = 1
              /\ rows[p][i].delta_since_prev = 1

\* C13: a run that stops on a missing or blank OWNER, REPO or GITHUB_TOKEN has
\* asked the network nothing and leaves metrics/, the three files and the
\* backups as it found them.
C13_ConfigErrorNoSideEffect ==
    \A p \in Procs : pc[p] = "config_error" =>
        /\ FilesNow = pre[p]
        /\ latest[p] = NoResponse
        /\ rows[p] = << >>

\* C13 witness: a run stopped on its settings where metrics/ did not exist.
C13_Witness ==
    \E p \in Procs : pc[p] = "config_error" /\ ~dir /\ ~pre[p].dir

\* The run has its SnapshotRow list and has not returned.
Writing(p) == pc[p] \in {"write_snapshot", "events_header", "write_events", "write_marker"}

\* The snapshot rows of the run are the last rows of the snapshot CSV.
SnapshotRowsIn(p) ==
    /\ snapshot.exists
    /\ snapshot.rows = SnapshotBase(p) \o [i \in 1..Len(rows[p]) |-> SnapshotCsvRow(rows[p][i])]

\* The event rows of the run, for its rows with an increase, are the last rows
\* of the events CSV.
EventRowsIn(p) ==
    LET up == {i \in 1..Len(rows[p]) : rows[p][i].delta_since_prev > 0}
        ev == RowsAfter(events, Len(EventsBase(p)))
    IN  /\ events.exists
        /\ IsPrefix(EventsBase(p), events.rows)
        /\ Len(ev) = Cardinality(up)
        /\ \A j \in 1..Len(ev) : ev[j][2] = IsoText(now_jst[p]) /\ ev[j][4].n > 0

\* C14 as stated, on the files a kill would leave: whenever the marker holds
\* the timestamp of a run that has built its rows, the run's snapshot rows and
\* event rows are in the logs.
C14_MarkerImpliesRows ==
    \A p \in Procs :
        ((Writing(p) \/ Completed(p)) /\ marker = MarkerFile(IsoText(now_jst[p]))) =>
            /\ SnapshotRowsIn(p)
            /\ pre[p].marker.exists => EventRowsIn(p)

\* C14 as amended: a run appends all its snapshot rows before it touches the
\* events CSV and appends its event rows before it replaces the marker; so on
\* the files a kill would leave, a marker that holds the run's timestamp and
\* is not the marker the run found implies that the run's snapshot rows and
\* event rows are in the logs.
C14_WriteOrder ==
    \A p \in Procs :
        /\ pc[p] \in {"backup", "load", "fetch", "reconcile", "write_snapshot"} =>
              /\ events = pre[p].events
              /\ marker = pre[p].marker
              /\ snapshot.exists => IsPrefix(snapshot.rows, pre[p].snapshot.rows)
        /\ pc[p] \in {"events_header", "write_events"} =>
              /\ SnapshotRowsIn(p)
              /\ events = IF pc[p] = "events_header" THEN pre[p].events
                          ELSE File(EventsBase(p))
              /\ marker = pre[p].marker
        /\ pc[p] = "write_marker" =>
              /\ SnapshotRowsIn(p)
              /\ pre[p].marker.exists => EventRowsIn(p)
              /\ marker = pre[p].marker
        /\ ((Writing(p) \/ Completed(p)) /\ marker = MarkerFile(IsoText(now_jst[p]))
                /\ marker # pre[p].marker) =>
              /\ Completed(p)
              /\ SnapshotRowsIn(p)
              /\ pre[p].marker.exists => EventRowsIn(p)

\* C14 witness: a run that found a marker has appended its snapshot rows and
\* an event row and has not yet replaced the marker.
C14_Witness ==
    \E p \in Procs :
        /\ pc[p] = "write_marker"
        /\ Len(events.rows) > Len(EventsBase(p))
        /\ Len(snapshot.rows) > Len(SnapshotBase(p))
        /\ marker = pre[p].marker
        /\ marker # MarkerFile(IsoText(now_jst[p]))

\* The rows of the events CSV written by runs: all but its header.
WrittenEvents == IF events.exists THEN RowsAfter(events, 1) ELSE << >>

\* C16: every row of the events CSV covers a window of non-zero width: its
\* start time is before its end time.
C16_NonZeroWindow ==
    \A j \in 1..Len(WrittenEvents) :
        LET ev == WrittenEvents[j]
        IN  ev[1].k = "ts" /\ ev[2].k = "ts" /\ ev[1].n < ev[2].n

\* C19: a run that renames the snapshot CSV aside records a delta of 0 for
\* every asset and appends no event row, whatever the marker and the counts
\* of the renamed file.
C19_RelocationIsBaseline ==
    \A p \in Procs :
        (Completed(p) /\ HeaderMismatch(pre[p].snapshot, SNAPSHOT_HEADER)) =>
            /\ Len(snapshot.rows) = 1 + Len(latest[p].assets)
            /\ \A i \in 2..Len(snapshot.rows) : snapshot.rows[i][5] = IntText(0)
            /\ events.exists
            /\ events.rows = EventsBase(p)

\* C19 witness: the renamed file held a lower count for an asset, the marker
\* held a time, and the run is over.
C19_Witness ==
    \E p \in Procs :
        /\ Completed(p)
        /\ pre[p].snapshot = OldFormatLog
        /\ pre[p].marker = MarkerFile(T0)
        /\ \E i \in 1..Len(latest[p].assets) :
              /\ latest[p].assets[i].name = Text("a")
              /\ latest[p].assets[i].download_count = 1

\* C20: after a completed run the snapshot CSV begins with the expected
\* header and the events CSV with its header, whatever was there before.
C20_HeadersAfterRun ==
    \A p \in Procs : Completed(p) =>
        /\ HeaderMatches(snapshot)
        /\ events.exists /\ events.rows # << >> /\ events.rows[1] = EVENTS_HEADER

\* What a completed run leaves: the marker holds its poll time, which is the
\* time of the snapshot rows it appended and the window_end of the event rows
\* it appended; the window_start of those event rows is the time of the
\* marker it found, when that marker held one.
LeavesPollTime(p) ==
    LET new == RowsAfter(snapshot, Len(SnapshotBase(p)))
        ev == RowsAfter(events, Len(EventsBase(p)))
    IN  /\ marker = MarkerFile(IsoText(now_jst[p]))
        /\ \A i \in 1..Len(new) : new[i][1] = IsoText(now_jst[p])
        /\ \A j \in 1..Len(ev) :
              /\ ev[j][2] = IsoText(now_jst[p])
              /\ _read_last_poll_jst(pre[p].marker).some =>
                    ev[j][1] = pre[p].marker.text

\* The run that starts after a completed run finds what that run left.
FindsWhatWasLeft(p) ==
    (Completed(p) /\ pc'[p] = "backup") =>
        /\ pre'[p].marker = MarkerFile(IsoText(now_jst[p]))
        /\ pre'[p].snapshot = snapshot
        /\ pre'[p].events = events

\* C17: event windows chain across consecutive completed runs. A completed run
\* leaves a marker equal to its poll time, which is the time of its snapshot
\* rows and the window_end of its event rows; the next run starts from exactly
\* those files, and the window_start of every event row it writes is the time
\* of that marker.
C17_WindowsChain ==
    /\ [](\A p \in Procs : Completed(p) => LeavesPollTime(p))
    /\ [][\A p \in Procs : FindsWhatWasLeft(p)]_vars

\* C17 witness: the second of two completed runs has written an event row
\* that starts at the poll time of the first, which wrote an event row too.
C17_Witness ==
    \E p \in Procs :
        /\ Completed(p)
        /\ runs = 2
        /\ Len(events.rows) > Len(pre[p].events.rows)
        /\ Len(pre[p].events.rows) > 1
        /\ pre[p].marker = MarkerFile(pre[p].events.rows[Len(pre[p].events.rows)][2])
        /\ pre[p].snapshot.rows[Len(pre[p].snapshot.rows)][1] = pre[p].marker.text
        /\ events.rows[Len(events.rows)][1] = pre[p].marker.text
        /\ events.rows[Len(events.rows)][1] # T0

\* The rows of rs that record a count and a delta for the asset name.
RowsOf(rs, name) ==
    {j \in 1..Len(rs) : IsCountRow(rs[j]) /\ rs[j][3] = name /\ Len(rs[j]) = 5 /\ rs[j][5].k = "int"}

\* The sum of delta_since_prev over the snapshot rows of an asset.
RECURSIVE DeltaSum(_, _, _)
DeltaSum(rs, name, i) ==
    IF i > Len(rs) THEN 0
    ELSE (IF i \in RowsOf(rs, name) THEN rs[i][5].n ELSE 0) + DeltaSum(rs, name, i + 1)

\* For every asset the deltas of its rows add up to the count of its last row
\* less the count of its first row.
Telescoped(rs) ==
    \A name \in AssetNames :
        LET js == RowsOf(rs, name)
        IN  js # {} =>
               DeltaSum(rs, name, 1)
                  = rs[Nearest(js)][4].n - rs[CHOOSE j \in js : \A m \in js : j <= m][4].n

NoDuplicateNames(as) == \A i, j \in 1..Len(as) : as[i].name = as[j].name => i = j

\* C18: deltas telescope. A completed run that renames nothing aside and
\* fetches no name twice keeps, for every asset, the sum of delta_since_prev
\* over its snapshot rows equal to the count of its latest row less the count
\* of its first row; a log that does not exist yet has the property, so it
\* holds after any sequence of such runs.
C18_DeltasTelescope ==
    /\ Telescoped(<< >>)
    /\ \A p \in Procs :
          (/\ Completed(p)
           /\ ~HeaderMismatch(pre[p].snapshot, SNAPSHOT_HEADER)
           /\ NoDuplicateNames(latest[p].assets)
           /\ Telescoped(pre[p].snapshot.rows)) =>
              Telescoped(snapshot.rows)

\* C18 witness: after two completed runs an asset has three rows, with a
\* delta above 0 and a delta below 0 among them.
C18_Witness ==
    \E p \in Procs : \E name \in AssetNames :
        /\ Completed(p)
        /\ runs = 2
        /\ ~HeaderMismatch(pre[p].snapshot, SNAPSHOT_HEADER)
        /\ NoDuplicateNames(latest[p].assets)
        /\ Telescoped(pre[p].snapshot.rows)
        /\ Cardinality(RowsOf(snapshot.rows, name)) >= 3
        /\ \E i, j \in RowsOf(snapshot.rows, name) :
              snapshot.rows[i][5].n > 0 /\ snapshot.rows[j][5].n < 0

\* ------------------------------------------- the worked example of a poll
E2ENames == {Text("app.tar.gz"), Text("app.zip")}
E2ECounts == {3, 100, 107}

\* The answers of GET /releases/latest for the release of the example.
E2EResponses ==
    [tag_name : {Text("v1.2")},
     assets : SeqsUpTo([name : E2ENames, download_count : E2ECounts], MaxAssets)]

\* The log of the example: one row, app.tar.gz at 100.
E2ELog ==
    File(<< SNAPSHOT_HEADER,
            << T0, Text("v1.1"), Text("app.tar.gz"), IntText(100), IntText(0) >> >>)

\* The files of the example: the log, the events CSV and a marker holding T0.
InitE2E ==
    /\ dir = TRUE
    /\ snapshot = E2ELog
    /\ events = File(<< EVENTS_HEADER >>)
    /\ marker = MarkerFile(T0)
    /\ backups = {}
    /\ clock = 0
    /\ pc = [p \in Procs |-> "idle"]
    /\ last_counts = [p \in Procs |-> EmptyCounts]
    /\ latest = [p \in Procs |-> NoResponse]
    /\ now_jst = [p \in Procs |-> 0]
    /\ prev_poll_jst = [p \in Procs |-> 0]
    /\ rows = [p \in Procs |-> << >>]
    /\ pre = [p \in Procs |-> FilesNow]
    /\ runs = 0
    /\ kills = 0
    /\ killedAt = "never"
    /\ owed = [a \in AssetNames |-> 0]

FetchE2E(p) == Fetched(p, E2EResponses)

StepE2E(p) ==
    \/ ConfigError(p)
    \/ Start(p)
    \/ Backup(p)
    \/ Load(p)
    \/ FetchFail(p)
    \/ FetchE2E(p)
    \/ Reconcile(p)
    \/ WriteSnapshot(p)
    \/ EventsHeader(p)
    \/ WriteEvents(p)
    \/ WriteMarker(p)
    \/ Kill(p)

NextE2E == StepE2E(1)

SpecE2E == InitE2E /\ [][NextE2E]_vars

\* The answer of the example: tag v1.2, app.tar.gz at 107 and app.zip at 3.
E2EAnswer ==
    [tag_name |-> Text("v1.2"),
     assets |-> << [name |-> Text("app.tar.gz"), download_count |-> 107],
                   [name |-> Text("app.zip"), download_count |-> 3] >>]

\* The run of the example: from the files of the example, at a time T1 after
\* T0, with the answer of the example.
E2ERun(p) ==
    /\ Completed(p)
    /\ pre[p].snapshot = E2ELog
    /\ pre[p].events = File(<< EVENTS_HEADER >>)
    /\ pre[p].marker = MarkerFile(T0)
    /\ latest[p] = E2EAnswer
    /\ now_jst[p] > 0

\* C12: from a log with one row, app.tar.gz at 100, and a marker holding T0, a
\* run at T1 > T0 that fetches tag v1.2 with app.tar.gz at 107 and app.zip at 3
\* appends exactly the snapshot rows (T1, v1.2, app.tar.gz, 107, 7) and
\* (T1, v1.2, app.zip, 3, 0) and exactly the event row (T0, T1, app.tar.gz, 7),
\* and leaves the marker at T1.
C12_EndToEnd ==
    \A p \in Procs : E2ERun(p) =>
        LET T1 == IsoText(now_jst[p])
        IN  /\ snapshot = File(E2ELog.rows \o
                  << << T1, Text("v1.2"), Text("app.tar.gz"), IntText(107), IntText(7) >>,
                     << T1, Text("v1.2"), Text("app.zip"), IntText(3), IntText(0) >> >>)
            /\ events = File(<< EVENTS_HEADER,
                                << T0, T1, Text("app.tar.gz"), IntText(7) >> >>)
            /\ marker = MarkerFile(T1)

\* C12 witness: the run of the example is over.
C12_Witness == \E p \in Procs : E2ERun(p) /\ Len(events.rows) = 2

\* ------------------------------------------------ two runs at the same time
\* The answers of the polls of two runs: at most one asset each.
ConcResponses ==
    [tag_name : {Text("v1.2")}, assets : {<< >>} \cup {<< a >> : a \in Assets}]

\* A log, an events CSV and a marker left by earlier polls.
InitConc ==
    /\ dir = TRUE
    /\ snapshot \in {DamagedLog, EarlierLog}
    /\ events = File(<< EVENTS_HEADER >>)
    /\ marker = MarkerFile(T0)
    /\ backups = {}
    /\ clock = 0
    /\ pc = [p \in Procs |-> "idle"]
    /\ last_counts = [p \in Procs |-> EmptyCounts]
    /\ latest = [p \in Procs |-> NoResponse]
    /\ now_jst = [p \in Procs |-> 0]
    /\ prev_poll_jst = [p \in Procs |-> 0]
    /\ rows = [p \in Procs |-> << >>]
    /\ pre = [p \in Procs |-> FilesNow]
    /\ runs = 0
    /\ kills = 0
    /\ killedAt = "never"
    /\ owed = [a \in AssetNames |-> 0]

FetchConc(p) == Fetched(p, ConcResponses)

\* One step of one of the runs; nothing keeps two runs apart.
StepConc(p) ==
    \/ Start(p)
    \/ Backup(p)
    \/ Load(p)
    \/ FetchConc(p)
    \/ Reconcile(p)
    \/ WriteSnapshot(p)
    \/ EventsHeader(p)
    \/ WriteEvents(p)
    \/ WriteMarker(p)

NextConc == \E p \in Procs : StepConc(p)

SpecConc == InitConc /\ [][NextConc]_vars

\* A run is under way.
Active(p) == pc[p] \notin Stopped

\* No two runs are under way at once.
MutuallyExclusive == \A p, q \in Procs : (Active(p) /\ Active(q)) => p = q

\* The same increase of an asset's count is in the logs twice: a snapshot row
\* with a delta above 0 for a count that the nearest earlier row of the asset
\* records already, with the same delta, and two event rows of that delta for
\* the asset.
DoubleCounted ==
    \E name \in AssetNames :
        \E j \in 1..Len(snapshot.rows) :
            LET rs == snapshot.rows
                js == EarlierRows(rs, j, name)
            IN  /\ IsCountRow(rs[j]) /\ rs[j][3] = name
                /\ Len(rs[j]) = 5 /\ rs[j][5].k = "int" /\ rs[j][5].n > 0
                /\ js # {}
                /\ rs[Nearest(js)][4] = rs[j][4]
                /\ rs[Nearest(js)][5] = rs[j][5]
                /\ Cardinality({i \in 2..Len(events.rows) :
                                   /\ events.rows[i][3] = name
                                   /\ events.rows[i][4] = rs[j][5]}) >= 2

\* C15: with two runs on the same files a double count is reachable, and it
\* is reached only when the runs overlap: as long as no two runs are ever
\* under way at once, no increase is recorded twice.
C15_ExclusiveRunsCountOnce == ([]MutuallyExclusive) => [](~DoubleCounted)

\* C15 witness: two runs loaded the same counts before either appended, and
\* both recorded the same increase in a snapshot row and an event row.
C15_Witness ==
    /\ DoubleCounted
    /\ \E p, q \in Procs :
          /\ p # q
          /\ Completed(p) /\ Completed(q)
          /\ pre[p].snapshot = pre[q].snapshot
          /\ last_counts[p] = last_counts[q]
          /\ \E i \in 1..Len(rows[p]) : HasIncrease(rows[p][i]) /\ rows[q] = << rows[q][1] >>
                                        /\ rows[q][1].asset_name = rows[p][i].asset_name
                                        /\ rows[q][1].delta_since_prev = rows[p][i].delta_since_prev

====
